---- MODULE Spec2Model ----
(***************************************************************************)
(* Model of app.py: the bulk mail-merge loop (bulk_send_route), the single *)
(* send (send_email_route), the attempt logger (log_email_attempt), the    *)
(* count query (get_mail_counts) and clear_data, run by concurrently       *)
(* handled requests over the shared csv_files/, logs/ and uploads/         *)
(* directories.  A second specification (SpecSubst) checks the placeholder *)
(* substitution of the bulk loop as a pure function on strings.            *)
(***************************************************************************)
EXTENDS Integers, Sequences, FiniteSets, TLC

\* ---------------------------------------------------------------- bounds
MaxRows == 2        \* data rows of an uploaded CSV
MaxReqs == 3        \* requests started in one behaviour of Spec
MaxConcReqs == 2    \* requests started in one behaviour of SpecConc
MaxFaults == 1      \* exceptions outside SMTP (transform, logging, os.remove) in one behaviour
MaxDay == 1         \* calendar days after day 0 the clock may reach
MaxTemplateLen == 5 \* characters of a template handed to the substitution

Threads == {1, 2}   \* concurrently handled requests (werkzeug is threaded)
Dates == 0..MaxDay
Statuses == {"success", "failure"}
EmailValues == {"", "a@x.com"}
FileNames == {"f.pdf"}

\* Sequences over S of length 0..n
RECURSIVE SeqsUpTo(_, _)
SeqsUpTo(S, n) ==
    IF n = 0 THEN {<<>>}
    ELSE LET shorter == SeqsUpTo(S, n - 1)
         IN shorter \cup {Append(s, x) : s \in {q \in shorter : Len(q) = n - 1}, x \in S}

VARIABLES
    today,        \* the date datetime.datetime.now() formats
    csv_files,    \* directory csv_files/: file name -> lines
    logs,         \* directory logs/: file name -> lines
    uploads,      \* directory uploads/: file name -> content (the request that saved it)
    nreq,         \* requests started so far
    faults,       \* exceptions raised so far outside SMTP
    pc,           \* per thread: position in its handler
    kind,         \* per thread: the route being handled
    recipients,   \* bulk: list(csv_reader), each row given by its email field
    idx,          \* bulk: loop index (1-based)
    sent,         \* bulk: sent counter
    failed,       \* bulk: failed list
    attachments,  \* bulk: attachments list (paths saved at request start)
    response,     \* per thread: the response returned
    log_status,   \* log_email_attempt: status argument
    log_ret,      \* log_email_attempt: the call site to return to
    file_exists,  \* log_email_attempt: result of os.path.exists(csv_filename)
    csv_date,     \* log_email_attempt: the date in csv_filename
    attempts,     \* history: per row, the statuses log_email_attempt was called with
    delivered,    \* history: rows whose send_message call completed
    after_clear,  \* history: "cleared" (files removed) or "empty" (none to remove) once
                  \* clear_data succeeded, "no" from the next logged attempt on
    tmpl, subj, row, body1, subj1, body2, substDone   \* SpecSubst only

vars == <<today, csv_files, logs, uploads, nreq, faults, pc, kind, recipients, idx, sent,
          failed, attachments, response, log_status, log_ret, file_exists, csv_date,
          attempts, delivered, after_clear, tmpl, subj, row, body1, subj1, body2, substDone>>

fsVars == <<csv_files, logs, uploads>>
bulkVars == <<recipients, idx, sent, failed, attachments, attempts, delivered>>
logVars == <<log_status, log_ret, file_exists, csv_date>>
substVars == <<tmpl, subj, row, body1, subj1, body2, substDone>>

\* ------------------------------------------------------- file helpers
csv_filename(d) == <<"email_logs", d, "csv">>
log_filename(s, d) == <<s, d, "txt">>

Lines(dir, f) == IF f \in DOMAIN dir THEN dir[f] ELSE <<>>

\* open(f, 'a') followed by the writes of `new`, flushed on close
AppendFile(dir, f, new) ==
    [x \in DOMAIN dir \cup {f} |-> IF x = f THEN Lines(dir, f) \o new ELSE dir[x]]

RemoveFiles(dir, gone) == [x \in DOMAIN dir \ gone |-> dir[x]]

\* lines 60-74: header when the file was absent at the check, then the row
WriteCsvRow(dir, d, existed, status) ==
    AppendFile(dir, csv_filename(d),
               (IF existed THEN <<>> ELSE <<"header">>) \o <<status>>)

\* lines 77-82
WriteLogLine(dir, d, status) == AppendFile(dir, log_filename(status, d), <<status>>)


\* ------------------------------------------------- get_mail_counts
RECURSIVE CountStatus(_, _)
CountStatus(lines, s) ==
    IF lines = <<>> THEN 0
    ELSE (IF Head(lines) = s THEN 1 ELSE 0) + CountStatus(Tail(lines), s)

\* lines 340-347: csv.DictReader takes the first line as the field names,
\* whatever it holds; row.get('status') finds the status field only when
\* that first line was the header
FileCounts(lines) ==
    IF lines = <<>> THEN [total |-> 0, sent |-> 0, failed |-> 0]
    ELSE LET data == Tail(lines)
             keyed == Head(lines) = "header"
         IN [total |-> Len(data),
             sent |-> IF keyed THEN CountStatus(data, "success") ELSE 0,
             failed |-> IF keyed THEN CountStatus(data, "failure") ELSE 0]

RECURSIVE SumCounts(_, _)
SumCounts(dir, names) ==
    IF names = {} THEN [total |-> 0, sent |-> 0, failed |-> 0]
    ELSE LET f == CHOOSE x \in names : TRUE
             c == FileCounts(dir[f])
             r == SumCounts(dir, names \ {f})
         IN [total |-> c.total + r.total, sent |-> c.sent + r.sent,
             failed |-> c.failed + r.failed]

\* line 366 with the filter with the extension of the other directory
CsvListedAsTxt(dir) == {f \in DOMAIN dir : f[3] = "txt"}

\* lines 336-337, 365-366: the files of csv_files/ whose name ends with .csv
CsvListed(dir) == {f \in DOMAIN dir : f[3] = "csv"}

\* lines 372-374: the files of logs/ whose name ends with .txt
TxtListed(dir) == {f \in DOMAIN dir : f[3] = "txt"}

MailCounts(dir) == SumCounts(dir, CsvListed(dir))

\* -------------------------------------------------------- responses
NoResponse == [code |-> 0]
ErrorResponse(c) == [code |-> c]
BulkResult(s, f, n) == [code |-> 200, sent |-> s, failed |-> f, total |-> n]

\* line 253 without the append
MissingEmailDropped(f, i) == f

\* line 253
MissingEmailFailed(f, i) == Append(f, [row |-> i, error |-> "Missing email"])

\* line 292
SmtpFailed(f, i) == Append(f, [row |-> i, error |-> "SMTP error"])

\* line 287
SentIncrement(n) == n + 1

\* lines 238-243: file.save(file_path) for every uploaded attachment
SaveAttachments(dir, files, content) ==
    [f \in DOMAIN dir \cup files |-> IF f \in files THEN content ELSE dir[f]]

\* lines 294-296
DeleteAttachments(dir, paths) == RemoveFiles(dir, paths)

\* ------------------------------------------------------------- Init
MainInit ==
    /\ today = 0
    /\ csv_files = <<>>
    /\ logs = <<>>
    /\ uploads = <<>>
    /\ nreq = 0
    /\ faults = 0
    /\ pc = [t \in Threads |-> "idle"]
    /\ kind = [t \in Threads |-> "none"]
    /\ recipients = [t \in Threads |-> <<>>]
    /\ idx = [t \in Threads |-> 0]
    /\ sent = [t \in Threads |-> 0]
    /\ failed = [t \in Threads |-> <<>>]
    /\ attachments = [t \in Threads |-> {}]
    /\ response = [t \in Threads |-> NoResponse]
    /\ log_status = [t \in Threads |-> "none"]
    /\ log_ret = [t \in Threads |-> "none"]
    /\ file_exists = [t \in Threads |-> FALSE]
    /\ csv_date = [t \in Threads |-> 0]
    /\ attempts = [t \in Threads |-> <<>>]
    /\ delivered = [t \in Threads |-> {}]
    /\ after_clear = "no"

SubstIdle ==
    /\ tmpl = <<>>
    /\ subj = <<>>
    /\ row = <<>>
    /\ body1 = <<>>
    /\ subj1 = <<>>
    /\ body2 = <<>>
    /\ substDone = FALSE

Init == MainInit /\ SubstIdle


\* an exception of the environment, and its absence
Fault == faults < MaxFaults /\ faults' = faults + 1
NoFault == faults' = faults

\* ---------------------------------------------- calling log_email_attempt
\* the call itself: arguments bound, control at line 54
CallLog(t, status, ret, i) ==
    /\ log_status' = [log_status EXCEPT ![t] = status]
    /\ log_ret' = [log_ret EXCEPT ![t] = ret]
    /\ attempts' = [attempts EXCEPT ![t][i] = Append(@, status)]
    /\ pc' = [pc EXCEPT ![t] = "log_check"]
    /\ UNCHANGED <<file_exists, csv_date>>

\* ------------------------------------------------------ bulk_send_route
\* lines 199-246: validation, saving of the attachments, sent = 0, failed = []
BulkStart(t, limit) ==
    /\ pc[t] = "idle"
    /\ nreq < limit
    /\ nreq' = nreq + 1
    /\ kind' = [kind EXCEPT ![t] = "bulk"]
    /\ \E email_data \in {"", "html"}, rows \in SeqsUpTo(EmailValues, MaxRows),
          email_col \in BOOLEAN, files \in SUBSET FileNames :
          IF email_data = "" \/ rows = <<>> \/ ~email_col
          THEN /\ response' = [response EXCEPT ![t] = ErrorResponse(400)]
               /\ pc' = [pc EXCEPT ![t] = "done"]
               /\ UNCHANGED <<uploads, recipients, idx, attachments, attempts>>
          ELSE /\ uploads' = SaveAttachments(uploads, files, t)
               /\ attachments' = [attachments EXCEPT ![t] = files]
               /\ recipients' = [recipients EXCEPT ![t] = rows]
               /\ attempts' = [attempts EXCEPT ![t] = [i \in 1..Len(rows) |-> <<>>]]
               /\ idx' = [idx EXCEPT ![t] = 1]
               /\ pc' = [pc EXCEPT ![t] = "loop"]
               /\ UNCHANGED response
    /\ UNCHANGED <<today, csv_files, logs, sent, failed, delivered>>
    /\ UNCHANGED logVars
    /\ UNCHANGED substVars
    /\ NoFault
    /\ UNCHANGED after_clear

\* lines 249-254: a row whose email field is blank
BulkMissingEmail(t) ==
    /\ pc[t] = "loop" /\ kind[t] = "bulk"
    /\ idx[t] <= Len(recipients[t])
    /\ recipients[t][idx[t]] = ""
    /\ failed' = [failed EXCEPT ![t] = MissingEmailFailed(@, idx[t])]
    /\ idx' = [idx EXCEPT ![t] = @ + 1]
    /\ UNCHANGED <<today, nreq, pc, kind, recipients, sent, attachments, response,
                   attempts, delivered>>
    /\ UNCHANGED fsVars
    /\ UNCHANGED logVars
    /\ UNCHANGED substVars
    /\ NoFault
    /\ UNCHANGED after_clear

\* lines 256-286 / 289-291: transform, personalisation, the message with its
\* attachments, the SMTP session, up to the call of log_email_attempt
BulkSend(t) ==
    /\ pc[t] = "loop" /\ kind[t] = "bulk"
    /\ idx[t] <= Len(recipients[t])
    /\ recipients[t][idx[t]] # ""
    /\ \E transform_raises \in BOOLEAN, smtp_raises \in BOOLEAN :
          IF transform_raises
          THEN \* line 256 is outside the inner try: handled at line 300
               /\ Fault
               /\ response' = [response EXCEPT ![t] = ErrorResponse(500)]
               /\ pc' = [pc EXCEPT ![t] = "done"]
               /\ UNCHANGED <<delivered, attempts>>
               /\ UNCHANGED logVars
          ELSE IF (\E f \in attachments[t] : f \notin DOMAIN uploads) \/ smtp_raises
          THEN \* open(file_path, 'rb') or the SMTP session raised: line 289
               /\ CallLog(t, "failure", "bulk_failure", idx[t])
               /\ NoFault
               /\ UNCHANGED <<delivered, response>>
          ELSE \* send_message returned: line 286
               /\ delivered' = [delivered EXCEPT ![t] = @ \cup {idx[t]}]
               /\ CallLog(t, "success", "bulk_success", idx[t])
               /\ NoFault
               /\ UNCHANGED response
    /\ UNCHANGED <<today, nreq, kind, recipients, idx, sent, failed, attachments>>
    /\ UNCHANGED fsVars
    /\ UNCHANGED substVars
    /\ UNCHANGED after_clear

\* lines 294-298: after the loop
BulkFinish(t) ==
    /\ pc[t] = "loop" /\ kind[t] = "bulk"
    /\ idx[t] > Len(recipients[t])
    /\ uploads' = DeleteAttachments(uploads, attachments[t])
    /\ response' = [response EXCEPT
                      ![t] = BulkResult(sent[t], failed[t], Len(recipients[t]))]
    /\ pc' = [pc EXCEPT ![t] = "done"]
    /\ UNCHANGED <<today, csv_files, logs, nreq, kind>>
    /\ UNCHANGED bulkVars
    /\ UNCHANGED logVars
    /\ UNCHANGED substVars
    /\ NoFault
    /\ UNCHANGED after_clear

\* ------------------------------------------------------ send_email_route
\* lines 167-188 / 192-193
SendEmail(t, limit) ==
    /\ pc[t] = "idle"
    /\ nreq < limit
    /\ nreq' = nreq + 1
    /\ kind' = [kind EXCEPT ![t] = "single"]
    /\ \E valid \in BOOLEAN, smtp_raises \in BOOLEAN :
          IF ~valid
          THEN /\ response' = [response EXCEPT ![t] = ErrorResponse(400)]
               /\ pc' = [pc EXCEPT ![t] = "done"]
               /\ UNCHANGED <<attempts, delivered>>
               /\ UNCHANGED logVars
          ELSE /\ response' = response
               /\ delivered' = [delivered EXCEPT ![t] = IF smtp_raises THEN {} ELSE {1}]
               /\ log_status' = [log_status EXCEPT
                                   ![t] = IF smtp_raises THEN "failure" ELSE "success"]
               /\ log_ret' = [log_ret EXCEPT
                                ![t] = IF smtp_raises THEN "single_failure"
                                       ELSE "single_success"]
               /\ attempts' = [attempts EXCEPT
                                 ![t] = << <<IF smtp_raises THEN "failure" ELSE "success">> >>]
               /\ pc' = [pc EXCEPT ![t] = "log_check"]
               /\ UNCHANGED <<file_exists, csv_date>>
    /\ UNCHANGED <<today, recipients, idx, sent, failed, attachments>>
    /\ UNCHANGED fsVars
    /\ UNCHANGED substVars
    /\ NoFault
    /\ UNCHANGED after_clear


\* ---------------------------------------------------- log_email_attempt
LogOutcomes == {"ok", "csv_raises", "txt_raises", "emit_raises"}

\* lines 54-58: csv_filename and file_exists = os.path.exists(csv_filename)
LogCheck(t) ==
    /\ pc[t] = "log_check"
    /\ csv_date' = [csv_date EXCEPT ![t] = today]
    /\ file_exists' = [file_exists EXCEPT ![t] = csv_filename(today) \in DOMAIN csv_files]
    /\ pc' = [pc EXCEPT ![t] = "log_write"]
    /\ UNCHANGED <<today, nreq, kind, response, log_status, log_ret>>
    /\ UNCHANGED fsVars
    /\ UNCHANGED bulkVars
    /\ UNCHANGED substVars
    /\ NoFault
    /\ UNCHANGED after_clear

\* the statement after a call of log_email_attempt that returned
\* (lines 287, 292, 189-190, 194-195)
LogReturned(t) ==
    CASE log_ret[t] = "bulk_success" ->
            /\ sent' = [sent EXCEPT ![t] = SentIncrement(@)]
            /\ idx' = [idx EXCEPT ![t] = @ + 1]
            /\ pc' = [pc EXCEPT ![t] = "loop"]
            /\ UNCHANGED <<failed, response, attempts>>
      [] log_ret[t] = "bulk_failure" ->
            /\ failed' = [failed EXCEPT ![t] = SmtpFailed(@, idx[t])]
            /\ idx' = [idx EXCEPT ![t] = @ + 1]
            /\ pc' = [pc EXCEPT ![t] = "loop"]
            /\ UNCHANGED <<sent, response, attempts>>
      [] log_ret[t] = "single_success" ->
            /\ response' = [response EXCEPT ![t] = ErrorResponse(200)]
            /\ pc' = [pc EXCEPT ![t] = "done"]
            /\ UNCHANGED <<sent, failed, idx, attempts>>
      [] log_ret[t] = "single_failure" ->
            /\ response' = [response EXCEPT ![t] = ErrorResponse(500)]
            /\ pc' = [pc EXCEPT ![t] = "done"]
            /\ UNCHANGED <<sent, failed, idx, attempts>>

\* the handler an exception raised inside log_email_attempt reaches
\* (lines 289-291 and 192-193 call it again with 'failure'; lines 300-301
\* and the framework answer 500)
LogRaised(t) ==
    CASE log_ret[t] = "bulk_success" ->
            /\ CallLog(t, "failure", "bulk_failure", idx[t])
            /\ UNCHANGED <<sent, failed, idx, response>>
      [] log_ret[t] = "single_success" ->
            /\ CallLog(t, "failure", "single_failure", 1)
            /\ UNCHANGED <<sent, failed, idx, response>>
      [] log_ret[t] \in {"bulk_failure", "single_failure"} ->
            /\ response' = [response EXCEPT ![t] = ErrorResponse(500)]
            /\ pc' = [pc EXCEPT ![t] = "done"]
            /\ UNCHANGED <<sent, failed, idx, attempts, log_status, log_ret>>

\* lines 60-92 complete: CSV row, text line, socketio.emit
LogWrite(t) ==
    /\ pc[t] = "log_write"
    /\ csv_files' = WriteCsvRow(csv_files, csv_date[t], file_exists[t], log_status[t])
    /\ logs' = WriteLogLine(logs, today, log_status[t])
    /\ LogReturned(t)
    /\ UNCHANGED <<today, uploads, nreq, kind, recipients, attachments, delivered>>
    /\ UNCHANGED logVars
    /\ UNCHANGED substVars
    /\ NoFault
    /\ after_clear' = "no"

\* lines 60-92 with an exception: opening the CSV file, opening or writing
\* the text log, or socketio.emit raises
LogWriteFails(t) ==
    /\ pc[t] = "log_write"
    /\ \E o \in LogOutcomes \ {"ok"} :
          /\ csv_files' = IF o = "csv_raises" THEN csv_files
                          ELSE WriteCsvRow(csv_files, csv_date[t], file_exists[t],
                                           log_status[t])
          /\ logs' = IF o = "emit_raises" THEN WriteLogLine(logs, today, log_status[t])
                     ELSE logs
    /\ LogRaised(t)
    /\ Fault
    /\ UNCHANGED <<today, uploads, nreq, kind, recipients, attachments, delivered,
                   file_exists, csv_date>>
    /\ UNCHANGED substVars
    /\ after_clear' = "no"

\* ----------------------------------------------------------- clear_data
\* lines 360-382
ClearData(t, limit) ==
    /\ pc[t] = "idle"
    /\ nreq < limit
    /\ nreq' = nreq + 1
    /\ kind' = [kind EXCEPT ![t] = "clear"]
    /\ csv_files' = RemoveFiles(csv_files, CsvListed(csv_files))
    /\ logs' = RemoveFiles(logs, TxtListed(logs))
    /\ response' = [response EXCEPT
                      ![t] = [code |-> 200,
                              cleared |-> Cardinality(CsvListed(csv_files))
                                          + Cardinality(TxtListed(logs))]]
    /\ pc' = [pc EXCEPT ![t] = "done"]
    /\ UNCHANGED <<today, uploads>>
    /\ UNCHANGED bulkVars
    /\ UNCHANGED logVars
    /\ UNCHANGED substVars
    /\ NoFault
    /\ after_clear' = IF CsvListed(csv_files) \cup TxtListed(logs) = {} THEN "empty"
                      ELSE "cleared"

\* lines 364-368, 384-386: os.remove raises on the first log file
ClearDataFails(t, limit) ==
    /\ pc[t] = "idle"
    /\ nreq < limit
    /\ TxtListed(logs) # {}
    /\ Fault
    /\ nreq' = nreq + 1
    /\ kind' = [kind EXCEPT ![t] = "clear"]
    /\ csv_files' = RemoveFiles(csv_files, CsvListed(csv_files))
    /\ response' = [response EXCEPT ![t] = ErrorResponse(500)]
    /\ pc' = [pc EXCEPT ![t] = "done"]
    /\ UNCHANGED <<today, logs, uploads>>
    /\ UNCHANGED bulkVars
    /\ UNCHANGED logVars
    /\ UNCHANGED substVars
    /\ UNCHANGED after_clear

\* ------------------------------------------------------ get_mail_counts
\* lines 329-355
GetMailCounts(t, limit) ==
    /\ pc[t] = "idle"
    /\ nreq < limit
    /\ nreq' = nreq + 1
    /\ kind' = [kind EXCEPT ![t] = "counts"]
    /\ response' = [response EXCEPT
                      ![t] = [code |-> 200, counts |-> MailCounts(csv_files)]]
    /\ pc' = [pc EXCEPT ![t] = "done"]
    /\ UNCHANGED today
    /\ UNCHANGED fsVars
    /\ UNCHANGED bulkVars
    /\ UNCHANGED logVars
    /\ UNCHANGED substVars
    /\ NoFault
    /\ UNCHANGED after_clear

\* the response is sent; the thread takes the next request
Return(t) ==
    /\ pc[t] = "done"
    /\ pc' = [pc EXCEPT ![t] = "idle"]
    /\ kind' = [kind EXCEPT ![t] = "none"]
    /\ recipients' = [recipients EXCEPT ![t] = <<>>]
    /\ idx' = [idx EXCEPT ![t] = 0]
    /\ sent' = [sent EXCEPT ![t] = 0]
    /\ failed' = [failed EXCEPT ![t] = <<>>]
    /\ attachments' = [attachments EXCEPT ![t] = {}]
    /\ response' = [response EXCEPT ![t] = NoResponse]
    /\ log_status' = [log_status EXCEPT ![t] = "none"]
    /\ log_ret' = [log_ret EXCEPT ![t] = "none"]
    /\ file_exists' = [file_exists EXCEPT ![t] = FALSE]
    /\ csv_date' = [csv_date EXCEPT ![t] = 0]
    /\ attempts' = [attempts EXCEPT ![t] = <<>>]
    /\ delivered' = [delivered EXCEPT ![t] = {}]
    /\ UNCHANGED <<today, nreq>>
    /\ UNCHANGED fsVars
    /\ UNCHANGED substVars
    /\ NoFault
    /\ UNCHANGED after_clear

\* midnight: datetime.datetime.now() moves to the next date
Tick ==
    /\ today < MaxDay
    /\ today' = today + 1
    /\ UNCHANGED <<nreq, pc, kind, response>>
    /\ UNCHANGED fsVars
    /\ UNCHANGED bulkVars
    /\ UNCHANGED logVars
    /\ UNCHANGED substVars
    /\ NoFault
    /\ UNCHANGED after_clear

\* one request at a time
Next ==
    \/ BulkStart(1, MaxReqs)
    \/ BulkMissingEmail(1)
    \/ BulkSend(1)
    \/ BulkFinish(1)
    \/ SendEmail(1, MaxReqs)
    \/ LogCheck(1)
    \/ LogWrite(1)
    \/ LogWriteFails(1)
    \/ ClearData(1, MaxReqs)
    \/ ClearDataFails(1, MaxReqs)
    \/ GetMailCounts(1, MaxReqs)
    \/ Return(1)
    \/ Tick

Spec == Init /\ [][Next]_vars

\* requests handled concurrently, one thread each
NextConc ==
    \/ \E t \in Threads : BulkStart(t, MaxConcReqs)
    \/ \E t \in Threads : BulkMissingEmail(t)
    \/ \E t \in Threads : BulkSend(t)
    \/ \E t \in Threads : BulkFinish(t)
    \/ \E t \in Threads : SendEmail(t, MaxConcReqs)
    \/ \E t \in Threads : LogCheck(t)
    \/ \E t \in Threads : LogWrite(t)
    \/ \E t \in Threads : LogWriteFails(t)
    \/ \E t \in Threads : ClearData(t, MaxConcReqs)
    \/ \E t \in Threads : ClearDataFails(t, MaxConcReqs)
    \/ \E t \in Threads : GetMailCounts(t, MaxConcReqs)
    \/ \E t \in Threads : Return(t)
    \/ Tick

SpecConc == Init /\ [][NextConc]_vars

\* single-send and bulk-send requests only, one at a time: no clear-data
NextSends ==
    \/ BulkStart(1, MaxReqs)
    \/ BulkMissingEmail(1)
    \/ BulkSend(1)
    \/ BulkFinish(1)
    \/ SendEmail(1, MaxReqs)
    \/ LogCheck(1)
    \/ LogWrite(1)
    \/ LogWriteFails(1)
    \/ Return(1)
    \/ Tick

SpecSends == Init /\ [][NextSends]_vars

\* ------------------------------------------- placeholder substitution
\* Text is a sequence of characters.
Chars == {"[", "]", "a", "b"}
Keys == {<<"a">>, <<"b">>}
Values == {<<>>, <<"a">>, <<"b">>, <<"[">>, <<"[", "a", "]">>, <<"[", "b", "]">>}
Subjects == {<<"[", "a", "]", "[", "a", "]">>, <<"[", "b", "]", "a">>}

\* str.replace(old, new) with only the first occurrence replaced
RECURSIVE ReplaceFirst(_, _, _)
ReplaceFirst(text, old, new) ==
    IF Len(text) < Len(old) THEN text
    ELSE IF SubSeq(text, 1, Len(old)) = old
         THEN new \o SubSeq(text, Len(old) + 1, Len(text))
         ELSE <<Head(text)>> \o ReplaceFirst(Tail(text), old, new)

\* str.replace(old, new), old non-empty: every non-overlapping occurrence,
\* found left to right; the inserted text is not scanned again
RECURSIVE Replace(_, _, _)
Replace(text, old, new) ==
    IF Len(text) < Len(old) THEN text
    ELSE IF SubSeq(text, 1, Len(old)) = old
         THEN new \o Replace(SubSeq(text, Len(old) + 1, Len(text)), old, new)
         ELSE <<Head(text)>> \o Replace(Tail(text), old, new)

\* line 262
Placeholder(key) == <<"[">> \o key \o <<"]">>

\* lines 260-264: for key, value in row.items(), in insertion order
RECURSIVE Personalize(_, _)
Personalize(text, items) ==
    IF items = <<>> THEN text
    ELSE LET key == Head(items)[1]
             value == Head(items)[2]
         IN Personalize(IF key # <<>> /\ value # <<>>
                        THEN Replace(text, Placeholder(key), value)
                        ELSE text,
                        Tail(items))

\* a row of csv.DictReader: distinct column names, in header order
Rows ==
    {<<<<k1, v1>>, <<k2, v2>>>> : k1 \in Keys, k2 \in Keys, v1 \in Values, v2 \in Values}
        \cap {r \in Seq(Keys \X Values) : r[1][1] # r[2][1]}

SubstInit ==
    /\ MainInit
    /\ tmpl \in SeqsUpTo(Chars, MaxTemplateLen)
    /\ subj \in Subjects
    /\ row \in Rows
    /\ body1 = <<>>
    /\ subj1 = <<>>
    /\ body2 = <<>>
    /\ substDone = FALSE

mainVars == <<today, csv_files, logs, uploads, nreq, faults, pc, kind, recipients, idx,
              sent, failed, attachments, response, log_status, log_ret, file_exists,
              csv_date, attempts, delivered, after_clear>>

\* the loop of lines 260-264 run on the body and the subject of one row,
\* and run once more on the personalised body
PersonalizeRow ==
    /\ ~substDone
    /\ body1' = Personalize(tmpl, row)
    /\ subj1' = Personalize(subj, row)
    /\ body2' = Personalize(Personalize(tmpl, row), row)
    /\ substDone' = TRUE
    /\ UNCHANGED <<tmpl, subj, row>>
    /\ UNCHANGED mainVars

NextSubst == PersonalizeRow

SpecSubst == SubstInit /\ [][NextSubst]_vars

\* ------------------------------------------------------------ properties
Returned(t, k) == pc[t] = "done" /\ kind[t] = k
BulkResultReturned(t) == Returned(t, "bulk") /\ response[t].code = 200
FailedRows(t) == {failed[t][j].row : j \in 1..Len(failed[t])}
ZeroCounts == [total |-> 0, sent |-> 0, failed |-> 0]

\* C1: when a bulk-send returns its result, log_email_attempt has been called
\* exactly once for every row of the CSV, blank-email rows included.
C1_OneAttemptPerRow ==
    \A t \in Threads :
        BulkResultReturned(t) =>
            \A i \in 1..Len(recipients[t]) : Len(attempts[t][i]) = 1

\* C2: the result a bulk-send returns has sent + len(failed) = total = number
\* of data rows, and no row appears twice in failed.
C2_SentPlusFailedIsTotal ==
    \A t \in Threads :
        BulkResultReturned(t) =>
            /\ response[t].total = Len(recipients[t])
            /\ response[t].sent + Len(response[t].failed) = response[t].total
            /\ Cardinality({response[t].failed[j].row : j \in 1..Len(response[t].failed)})
                  = Len(response[t].failed)

C2_Witness ==
    \E t \in Threads :
        /\ BulkResultReturned(t)
        /\ response[t].sent >= 1
        /\ \E j \in 1..Len(response[t].failed) :
              response[t].failed[j].error = "Missing email"

\* C3: a bulk-send that passed validation ends with the {sent, failed, total}
\* result with every row processed, never with an error response.
C3_BulkNeverAborts ==
    \A t \in Threads :
        (Returned(t, "bulk") /\ recipients[t] # <<>>) =>
            /\ response[t].code = 200
            /\ idx[t] = Len(recipients[t]) + 1

\* C4: when a bulk-send returns, none of the attachment files it saved is
\* left in uploads/.
C4_AttachmentsDeletedAtReturn ==
    \A t \in Threads :
        Returned(t, "bulk") =>
            \A f \in attachments[t] : ~(f \in DOMAIN uploads /\ uploads[f] = t)

\* C5: every daily CSV file starts with the header and holds it exactly once.
C5_HeaderExactlyOnce ==
    \A f \in DOMAIN csv_files :
        /\ csv_files[f] # <<>>
        /\ Head(csv_files[f]) = "header"
        /\ CountStatus(csv_files[f], "header") = 1

\* C6: for every date and status, the daily CSV holds as many rows of that
\* status as the text log of that status and date holds lines.
C6_CsvMatchesTextLog ==
    \A d \in Dates, st \in Statuses :
        CountStatus(Lines(csv_files, csv_filename(d)), st)
            = Len(Lines(logs, log_filename(st, d)))

\* C7: while a bulk batch is between saving its attachments and its own
\* deletion step, each of its attachment paths exists with the content it saved.
C7_AttachmentsStableDuringBatch ==
    \A t \in Threads :
        (kind[t] = "bulk" /\ pc[t] \in {"loop", "log_check", "log_write"}) =>
            \A f \in attachments[t] : f \in DOMAIN uploads /\ uploads[f] = t

\* C8: once clear_data has succeeded and until the next attempt is logged, csv_files/
\* and logs/ hold no file and get_mail_counts answers 0, 0, 0.
C8_ClearThenZeroCounts ==
    after_clear # "no" =>
        /\ DOMAIN csv_files = {}
        /\ DOMAIN logs = {}
        /\ MailCounts(csv_files) = ZeroCounts
        /\ \A t \in Threads : Returned(t, "counts") => response[t].counts = ZeroCounts

C8_Witness ==
    /\ after_clear = "cleared"
    /\ \E t \in Threads : Returned(t, "counts")

\* C10: in the result of a bulk-send, sent is the number of rows whose
\* send_message call completed, and no such row is in failed or logged as failure.
C10_ReportedMatchesDelivered ==
    \A t \in Threads :
        BulkResultReturned(t) =>
            /\ response[t].sent = Cardinality(delivered[t])
            /\ \A i \in delivered[t] :
                  /\ i \notin FailedRows(t)
                  /\ \A j \in 1..Len(attempts[t][i]) : attempts[t][i][j] # "failure"


\* text contains the substring sub
Contains(text, sub) ==
    \E i \in 1..(Len(text) - Len(sub) + 1) : SubSeq(text, i, i + Len(sub) - 1) = sub

\* no [column] token is left for a column with a non-empty value in the row
NoTokenLeft(text) ==
    \A j \in 1..Len(row) : row[j][2] # <<>> => ~Contains(text, Placeholder(row[j][1]))

Idempotent ==
    /\ NoTokenLeft(body1)
    /\ NoTokenLeft(subj1)
    /\ body2 = body1
    /\ Personalize(subj1, row) = subj1

\* C9 as stated: for every template and every row, after one pass of the
\* row's substitutions no [column] token of a non-empty column is left and a
\* second pass changes nothing.
C9_SubstitutionIdempotent == substDone => Idempotent

NoBracket(text) == \A i \in 1..Len(text) : text[i] \notin {"[", "]"}

\* no "[" lies between a "[" and the next "]"
Flat(text) ==
    \A i, j \in 1..Len(text) :
        (i < j /\ text[i] = "[" /\ text[j] = "[") =>
            \E k \in (i + 1)..(j - 1) : text[k] = "]"

PlainRow == \A j \in 1..Len(row) : NoBracket(row[j][1]) /\ NoBracket(row[j][2])

\* C9 amended: the same, for rows whose column names and values hold no "["
\* or "]" and templates in which no "[" lies between a "[" and the next "]".
C9_SubstitutionIdempotentPlain ==
    (substDone /\ PlainRow /\ Flat(tmpl) /\ Flat(subj)) => Idempotent

C9_Witness ==
    /\ substDone /\ PlainRow /\ Flat(tmpl) /\ Flat(subj)
    /\ \A j \in 1..Len(row) : row[j][2] # <<>>
    /\ Contains(tmpl, Placeholder(row[1][1]))
    /\ Contains(subj, Placeholder(row[2][1]))
    /\ Len(tmpl) = MaxTemplateLen
    /\ body1 # tmpl
    /\ subj1 # subj

\* values without brackets alone do not give idempotence (nested template)
C9_PlainValuesOnly == (substDone /\ PlainRow) => Idempotent

\* flat templates alone do not give idempotence (bracketed values)
C9_FlatTemplateOnly == (substDone /\ Flat(tmpl) /\ Flat(subj)) => Idempotent

====
